---- MODULE Spec2Model ----
(***************************************************************************)
(* A model of youtube-video-summary: the transcript client                 *)
(* (pkg/youtube/youtube.go), the in-memory repository, the router and the  *)
(* transcript service (internal/transcript/repository.go).                 *)
(*                                                                         *)
(* Strings the code inspects (time attributes, paragraph text, track       *)
(* identifiers, formatted lines) are sequences of one-character strings;   *)
(* strings the code only passes along are TLA+ strings.  Times are whole   *)
(* seconds.                                                                *)
(***************************************************************************)
EXTENDS Integers, Sequences, FiniteSets, TLC

VARIABLES
    \* FormatTranscript driver (SpecFormat)
    fmtIn,        \* transcript.Segments handed to FormatTranscript
    fmtCalled,    \* whether FormatTranscript has been called
    fmtInterval,  \* intervalSeconds of that call
    fmtOut,       \* the []string it returned
    \* parseTTMLTranscript driver (SpecParse)
    ttmlValid,    \* whether xml Decode accepts the document
    ttmlParas,    \* ttml.Body.Div.Paragraphs
    ttmlCalled,   \* whether parseTTMLTranscript has been called
    ttmlOut,      \* the [segments, err] it returned
    \* Client.GetTranscript calls in progress (SpecFetch)
    gt,           \* per caller: the call's position, locals and outcome
    \* MemoryRepository used directly by a caller (SpecRepo)
    cache,        \* r.cache: a map from video id to the entry stored
    heapT,        \* the Transcript objects *Transcript pointers point to,
                  \* by address: each with the array its Segments slice holds
    heapF,        \* the arrays Formatted slices point to, by address
    loc,          \* the caller's variables: t, and g1, g2 returned by Get
    got,          \* for g1, g2: the id it was got for, and whether a Save
                  \* or Clear has happened since
    ret,          \* what the last repository call returned: its error,
                  \* and for Size() the count
    saved,        \* history of that caller's calls: for each id saved with
                  \* success since the last successful Clear, the value that
                  \* the latest such Save was given
    \* Router.handleGetTranscripts and Transcript.GetTranscripts (SpecSvc)
    \* ExtractVideoId and IsValidUrl applied to strings (SpecExtract, SpecValid)
    urlParts,     \* the pieces of the string handed over, in order
    urlFn,        \* the function called on it, "none" before the call
    idOut,        \* what ExtractVideoId returned
    validOut,     \* what IsValidUrl returned
    \* formatTimeText applied to whole seconds (SpecLabel)
    lblCalled,    \* whether formatTimeText has been called
    lblIn,        \* its startTime
    lblOut,       \* the string it returned
    svc,          \* per client: the request, its position and the response
    \* MemoryRepository called from several goroutines (SpecLock)
    mu,           \* r.cacheLock, a sync.RWMutex
    th            \* per goroutine: the call it is in and where it stands

fmtVars   == <<fmtIn, fmtCalled, fmtInterval, fmtOut>>
parseVars == <<ttmlValid, ttmlParas, ttmlCalled, ttmlOut>>
fetchVars == <<gt>>
repoVars  == <<cache, heapT, heapF, loc, got, ret, saved>>
svcVars   == <<svc>>
lockVars  == <<mu, th>>
urlVars   == <<urlParts, urlFn, idOut, validOut>>
lblVars   == <<lblCalled, lblIn, lblOut>>
vars      == <<fmtVars, parseVars, fetchVars, repoVars, svcVars, lockVars, urlVars, lblVars>>

notFmt   == <<parseVars, fetchVars, repoVars, svcVars, lockVars, urlVars, lblVars>>
notParse == <<fmtVars, fetchVars, repoVars, svcVars, lockVars, urlVars, lblVars>>
notFetch == <<fmtVars, parseVars, repoVars, svcVars, lockVars, urlVars, lblVars>>
notRepo  == <<fmtVars, parseVars, fetchVars, svcVars, lockVars, urlVars, lblVars>>
\* The service works on the repository's state.
notSvc   == <<fmtVars, parseVars, fetchVars, loc, got, ret, saved, lockVars, urlVars, lblVars>>
notUrl   == <<fmtVars, parseVars, fetchVars, repoVars, svcVars, lockVars, lblVars>>
notLbl   == <<fmtVars, parseVars, fetchVars, repoVars, svcVars, lockVars, urlVars>>
\* So do the goroutines that call the repository.
notLock  == <<fmtVars, parseVars, fetchVars, heapT, heapF, loc, got, ret, saved, svcVars, urlVars, lblVars>>

-----------------------------------------------------------------------------
(* Bounds *)
MaxSegs  == 4
MaxParas == 3
MaxObjs  == 1
MaxPieces == 3
MaxSeconds == 7300

-----------------------------------------------------------------------------
(* String helpers: Go's strings package on sequences of characters *)

DigitChars == <<"0", "1", "2", "3", "4", "5", "6", "7", "8", "9">>

IsDigit(c) == \E d \in 1..10 : DigitChars[d] = c

DigitVal(c) == (CHOOSE d \in 1..10 : DigitChars[d] = c) - 1

HasPrefix(s, p) == Len(s) >= Len(p) /\ SubSeq(s, 1, Len(p)) = p

HasSuffix(s, p) == Len(s) >= Len(p) /\ SubSeq(s, Len(s) - Len(p) + 1, Len(s)) = p

TrimSuffix(s, p) == IF HasSuffix(s, p) THEN SubSeq(s, 1, Len(s) - Len(p)) ELSE s

TrimPrefix(s, p) == IF HasPrefix(s, p) THEN SubSeq(s, Len(p) + 1, Len(s)) ELSE s

IsSpace(c) == c \in {" ", "\n", "\t", "\r"}

RECURSIVE TrimLeft(_)
TrimLeft(s) == IF s # <<>> /\ IsSpace(Head(s)) THEN TrimLeft(Tail(s)) ELSE s

RECURSIVE TrimRight(_)
TrimRight(s) ==
    IF s # <<>> /\ IsSpace(s[Len(s)]) THEN TrimRight(SubSeq(s, 1, Len(s) - 1)) ELSE s

TrimSpace(s) == TrimRight(TrimLeft(s))

\* strings.Split(s, sep) for a one-character separator
RECURSIVE SplitAcc(_, _, _)
SplitAcc(s, sep, cur) ==
    IF s = <<>> THEN <<cur>>
    ELSE IF Head(s) = sep THEN <<cur>> \o SplitAcc(Tail(s), sep, <<>>)
    ELSE SplitAcc(Tail(s), sep, Append(cur, Head(s)))

Split(s, sep) == SplitAcc(s, sep, <<>>)

\* Go's int(x / y): the quotient truncated toward zero
TruncDiv(a, b) == IF a >= 0 THEN a \div b ELSE -((-a) \div b)

\* The characters of a string, in order.
Chars(str) == [i \in 1..Len(str) |-> SubSeq(str, i, i)]

\* strings.Index for a one-character needle: 0 when it does not occur
IndexOf(s, c) ==
    IF \E i \in 1..Len(s) : s[i] = c
    THEN CHOOSE i \in 1..Len(s) : s[i] = c /\ \A j \in 1..(i - 1) : s[j] # c
    ELSE 0

LastIndexOf(s, c) ==
    IF \E i \in 1..Len(s) : s[i] = c
    THEN CHOOSE i \in 1..Len(s) : s[i] = c /\ \A j \in (i + 1)..Len(s) : s[j] # c
    ELSE 0

UpperChars == Chars("ABCDEFGHIJKLMNOPQRSTUVWXYZ")
LowerChars == Chars("abcdefghijklmnopqrstuvwxyz")

IsUpper(c) == \E k \in 1..26 : UpperChars[k] = c
IsLower(c) == \E k \in 1..26 : LowerChars[k] = c
IsLetter(c) == IsUpper(c) \/ IsLower(c)

ToLower(s) ==
    [i \in 1..Len(s) |->
        IF IsUpper(s[i]) THEN LowerChars[CHOOSE k \in 1..26 : UpperChars[k] = s[i]]
        ELSE s[i]]

RECURSIVE Decimal(_)
Decimal(n) == IF n < 10 THEN <<DigitChars[n + 1]>> ELSE Decimal(n \div 10) \o <<DigitChars[(n % 10) + 1]>>

\* A %d in place of the %02d.
Pad2_NoPadding(n) == IF n < 0 THEN <<"-">> \o Decimal(-n) ELSE Decimal(n)

\* fmt's %02d
Pad2(n) ==
    IF n < 0 THEN <<"-">> \o Decimal(-n)
    ELSE IF n < 10 THEN <<"0">> \o Decimal(n)
    ELSE Decimal(n)

-----------------------------------------------------------------------------
(* pkg/youtube: formatTimeText and FormatTranscript *)

formatTimeLabel(startTime) ==
    LET hours   == TruncDiv(startTime, 3600)
        minutes == TruncDiv(startTime - hours * 3600, 60)
        seconds == startTime - (hours * 3600 + minutes * 60)
    IN  IF hours > 0
        THEN <<"(">> \o Pad2(hours) \o <<":">> \o Pad2(minutes) \o <<":">> \o Pad2(seconds) \o <<")", " ">>
        ELSE <<"(">> \o Pad2(minutes) \o <<":">> \o Pad2(seconds) \o <<")", " ">>

formatTimeText(startTime, text) == formatTimeLabel(startTime) \o text

\* A float64 is an integer here, or NaN, the one value that is no number. NaN
\* is kept apart from every number the model computes, and the comparisons
\* the code makes on an interval go through FloatLE and FloatGE, which are
\* false as soon as one side is NaN, as Go's <= and >= are.
NaN == -1000000

IsNaN(x) == x = NaN

FloatLE(x, y) == ~IsNaN(x) /\ ~IsNaN(y) /\ x <= y

FloatGE(x, y) == ~IsNaN(x) /\ ~IsNaN(y) /\ x >= y

\* A flush condition that needs the interval to be exceeded, not reached.
FlushCond_Strict(segStart, currentStart, intervalSeconds, groupText) ==
    segStart - currentStart > intervalSeconds /\ Len(groupText) > 0

\* The condition under which the loop closes the pending group.
FlushCond(segStart, currentStart, intervalSeconds, groupText) ==
    FloatGE(segStart - currentStart, intervalSeconds) /\ Len(groupText) > 0

\* A FormatTranscript that forgets the group still pending after the loop.
FinalFlush_Dropped(formatted, currentStart, groupText) == formatted

\* The flush after the loop.
FinalFlush(formatted, currentStart, groupText) ==
    IF Len(groupText) > 0
    THEN Append(formatted, formatTimeText(currentStart, groupText))
    ELSE formatted

\* The for loop of FormatTranscript from segment i on, with the loop's locals.
RECURSIVE FormatLoop(_, _, _, _, _, _)
FormatLoop(segs, i, intervalSeconds, formatted, currentStart, groupText) ==
    IF i > Len(segs)
    THEN FinalFlush(formatted, currentStart, groupText)
    ELSE LET segment == segs[i]
             flush   == FlushCond(segment.StartTime, currentStart, intervalSeconds, groupText)
             f1 == IF flush THEN Append(formatted, formatTimeText(currentStart, groupText))
                            ELSE formatted
             c1 == IF flush THEN segment.StartTime ELSE currentStart
             g1 == IF flush THEN <<>> ELSE groupText
             g2 == IF Len(g1) > 0 THEN Append(g1, " ") ELSE g1
         IN  FormatLoop(segs, i + 1, intervalSeconds, f1, c1, g2 \o segment.Text)

\* A nil transcript or one without segments gives nil, here the empty sequence.
FormatTranscript(segs, intervalSeconds) ==
    IF Len(segs) = 0 THEN <<>>
    ELSE FormatLoop(segs, 1, intervalSeconds, <<>>, segs[1].StartTime, <<>>)

-----------------------------------------------------------------------------
(* pkg/youtube: parseTime and parseTTMLTranscript *)

\* strconv.ParseFloat on the strings of this model, which hold only digits,
\* ":", "s", letters,
\* "+" and "-": an optional sign and a non-empty run of digits is its value;
\* the unsigned word "nan", in any case, is NaN; everything else is a syntax
\* error. (The model's strings never spell "inf" or "infinity".)
RECURSIVE DecimalValue(_, _)
DecimalValue(s, acc) ==
    IF s = <<>> THEN acc ELSE DecimalValue(Tail(s), acc * 10 + DigitVal(Head(s)))

ParseFloat(s) ==
    LET signed == s # <<>> /\ Head(s) \in {"+", "-"}
        digits == IF signed THEN Tail(s) ELSE s
    IN  IF ToLower(s) = <<"n", "a", "n">> THEN [ok |-> TRUE, val |-> NaN]
        ELSE IF digits # <<>> /\ \A k \in 1..Len(digits) : IsDigit(digits[k])
        THEN [ok |-> TRUE,
              val |-> IF signed /\ Head(s) = "-" THEN -DecimalValue(digits, 0)
                                                ELSE DecimalValue(digits, 0)]
        ELSE [ok |-> FALSE, val |-> 0]

parseTime(timeStr) ==
    IF HasSuffix(timeStr, <<"s">>)
    THEN ParseFloat(TrimSuffix(timeStr, <<"s">>))
    ELSE LET parts == Split(timeStr, ":")
         IN  IF Len(parts) # 3 THEN [ok |-> FALSE, val |-> 0]
             ELSE LET hours   == ParseFloat(parts[1])
                      minutes == ParseFloat(parts[2])
                      seconds == ParseFloat(parts[3])
                  IN  IF ~hours.ok THEN [ok |-> FALSE, val |-> 0]
                      ELSE IF ~minutes.ok THEN [ok |-> FALSE, val |-> 0]
                      ELSE IF ~seconds.ok THEN [ok |-> FALSE, val |-> 0]
                      ELSE [ok |-> TRUE,
                            val |-> hours.val * 3600 + minutes.val * 60 + seconds.val]

\* A parser that also drops a paragraph whose end is before its begin.
keepSegment_NoNegative(segment) == segment.Text # <<>> /\ segment.Duration >= 0

\* The test that guards the append.
keepSegment(segment) == segment.Text # <<>>

\* A parser that gives up on the document at the first unparsable time.
timeFailure_Abort(segments) == [done |-> TRUE, segments |-> <<>>, err |-> <<"invalid time">>]

\* What the loop does on a begin or end that does not parse: log and continue.
timeFailure(segments) == [done |-> FALSE, segments |-> segments, err |-> <<>>]

\* The for loop of parseTTMLTranscript from paragraph i on.
RECURSIVE ParseLoop(_, _, _)
ParseLoop(paras, i, segments) ==
    IF i > Len(paras) THEN [segments |-> segments, err |-> <<>>]
    ELSE LET p     == paras[i]
             start == parseTime(p.Begin)
             end   == parseTime(p.End)
             fail  == timeFailure(segments)
             segment == [Text |-> TrimSpace(p.Text), StartTime |-> start.val,
                         Duration |-> end.val - start.val]
         IN  IF ~start.ok \/ ~end.ok
             THEN IF fail.done THEN [segments |-> fail.segments, err |-> fail.err]
                  ELSE ParseLoop(paras, i + 1, fail.segments)
             ELSE IF keepSegment(segment)
             THEN ParseLoop(paras, i + 1, Append(segments, segment))
             ELSE ParseLoop(paras, i + 1, segments)

\* valid: whether xml.Decoder.Decode accepts the document. The error is the
\* chain of messages errors.Wrap builds, outermost first; <<>> is nil.
parseTTMLTranscript(valid, paras) ==
    IF ~valid
    THEN [segments |-> <<>>, err |-> <<"failed to decode TTML XML", "xml syntax error">>]
    ELSE ParseLoop(paras, 1, <<>>)

-----------------------------------------------------------------------------
(* pkg/youtube: getPlayerResponse, the caption track choice, GetTranscript *)

\* An error is the chain of its messages, outermost first; <<>> is nil.
\* errors.Wrap(err, msg) puts msg in front of the chain.
Wrap(err, msg) == <<msg>> \o err

NoResponse == [Title |-> "", CaptionTracks |-> <<>>]

\* What getPlayerResponse returns for what the metadata request met:
\* o.kind is "neterr" (httpClient.Do failed, o.cause says why), "status"
\* (a status o.code other than 200), "badjson" (the body does not decode)
\* or "ok" (the body decodes to o.doc).
getPlayerResponse(o) ==
    CASE o.kind = "neterr"  -> [resp |-> NoResponse, err |-> Wrap(<<o.cause>>, "failed to perform request")]
      [] o.kind = "status"  -> [resp |-> NoResponse, err |-> <<"unexpected status code", o.code>>]
      [] o.kind = "badjson" -> [resp |-> NoResponse, err |-> Wrap(<<o.cause>>, "failed to decode player response")]
      [] OTHER              -> [resp |-> o.doc, err |-> <<>>]

extractCaptionTracks(resp) == resp.CaptionTracks

IsEnglish(track) == HasPrefix(track.VssID, <<".", "e", "n">>) \/ track.LanguageCode = "en"

\* The for loop over captionTracks: captionURL when it ends.
RECURSIVE TrackLoop(_, _)
TrackLoop(tracks, i) ==
    IF i > Len(tracks) THEN ""
    ELSE IF IsEnglish(tracks[i]) THEN tracks[i].BaseURL
    ELSE TrackLoop(tracks, i + 1)

\* captionURL after the loop and the fallback that follows it.
selectCaptionURL(tracks) ==
    LET captionURL == TrackLoop(tracks, 1)
    IN  IF captionURL = "" THEN tracks[1].BaseURL ELSE captionURL

ttmlURL(captionURL) == captionURL \o "&fmt=ttml"

NoCall == [next |-> "done", title |-> "", tracks |-> <<>>, url |-> "", err |-> <<>>]

\* A GetTranscript that hands getPlayerResponse's error on as it is.
playerError_Unwrapped(err) == err

\* The error GetTranscript returns when getPlayerResponse failed.
playerError(err) == Wrap(err, "failed to get player response")

\* A GetTranscript that goes on to the download with no caption track.
noTracks_Continue(title) ==
    [NoCall EXCEPT !.next = "get", !.title = title]

\* What GetTranscript does when the player response has no caption track.
noTracks(title) == [NoCall EXCEPT !.err = <<"no caption tracks available">>]

\* GetTranscript from its start to the caption download: either it returns
\* an error (next = "done") or it goes on to GET url (next = "get").
beforeDownload(o) ==
    LET r      == getPlayerResponse(o)
        title  == r.resp.Title
        tracks == extractCaptionTracks(r.resp)
    IN  IF r.err # <<>> THEN [NoCall EXCEPT !.err = playerError(r.err)]
        ELSE IF Len(tracks) = 0 THEN [noTracks(title) EXCEPT !.tracks = tracks]
        ELSE [next |-> "get", title |-> title, tracks |-> tracks,
              url |-> ttmlURL(selectCaptionURL(tracks)), err |-> <<>>]

NoResult == [ok |-> FALSE, Title |-> "", Segments |-> <<>>, err |-> <<>>]

\* GetTranscript from the return of httpClient.Get on: o.kind is "neterr",
\* "status", "readerr" (io.ReadAll failed) or "ok" (the body is o.doc, a
\* document [valid, paras]).
afterDownload(title, o) ==
    CASE o.kind = "neterr"  -> [NoResult EXCEPT !.err = Wrap(<<o.cause>>, "failed to fetch transcript")]
      [] o.kind = "status"  -> [NoResult EXCEPT !.err = <<"unexpected status code", o.code>>]
      [] o.kind = "readerr" -> [NoResult EXCEPT !.err = Wrap(<<o.cause>>, "failed to read TTML response")]
      [] OTHER ->
            LET parsed == parseTTMLTranscript(o.doc.valid, o.doc.paras)
            IN  IF parsed.err # <<>>
                THEN [NoResult EXCEPT !.err = Wrap(parsed.err, "failed to parse TTML transcript")]
                ELSE [ok |-> TRUE, Title |-> title, Segments |-> parsed.segments, err |-> <<>>]

\* The whole of GetTranscript, given what its two requests meet.
GetTranscript(o1, o2) ==
    LET b == beforeDownload(o1)
    IN  IF b.next = "done" THEN [NoResult EXCEPT !.err = b.err]
        ELSE afterDownload(b.title, o2)

-----------------------------------------------------------------------------
(* internal/repository: MemoryRepository. Each method runs under cacheLock *)
(* from its first look at the map to its return, so each is one step.      *)

\* The video ids of this model; the empty id is the one Get and Save refuse.
VidA == <<"d", "Q", "w", "4", "w", "9", "W", "g", "X", "c", "Q">>
VidB == <<"a", "b", "c", "d", "e", "f", "g", "h", "i", "j", "k">>
IDs  == {VidA, VidB}

EmptyCache == [id \in {} |-> 0]

\* A *TranscriptResponse: nil, or a struct whose Raw is the address of a
\* Transcript object (0 is nil) and whose Formatted is the address of the
\* array the slice points to (0 is a nil slice).
NilResp == [nil |-> TRUE, Title |-> "", Raw |-> 0, Formatted |-> 0]

Resp(title, raw, formatted) ==
    [nil |-> FALSE, Title |-> title, Raw |-> raw, Formatted |-> formatted]

\* transcriptCopy := *transcript: the struct is copied, so the copy's Raw
\* and Formatted point where the original's do.
copyResponse(resp) == Resp(resp.Title, resp.Raw, resp.Formatted)

\* MemoryRepository.Get: [resp, err]
RepoGet(videoID, ctxDone) ==
    IF videoID = <<>> THEN [resp |-> NilResp, err |-> "video ID cannot be empty"]
    ELSE IF ctxDone THEN [resp |-> NilResp, err |-> "context canceled"]
    ELSE IF videoID \notin DOMAIN cache THEN [resp |-> NilResp, err |-> "transcript not found"]
    ELSE IF cache[videoID].nil THEN [resp |-> NilResp, err |-> "invalid transcript"]
    ELSE [resp |-> copyResponse(cache[videoID]), err |-> "nil"]

\* A Save that, for an id already present, keeps the title it is given and
\* drops the transcript.
RepoSave_DropsRawOnOverwrite(videoID, transcript, ctxDone) ==
    IF videoID = <<>> THEN [cache |-> cache, err |-> "video ID cannot be empty"]
    ELSE IF transcript.nil THEN [cache |-> cache, err |-> "invalid transcript"]
    ELSE IF ctxDone THEN [cache |-> cache, err |-> "context canceled"]
    ELSE [cache |-> [id \in DOMAIN cache \cup {videoID} |->
                        IF id # videoID THEN cache[id]
                        ELSE IF videoID \in DOMAIN cache
                        THEN Resp(transcript.Title, 0, 0)
                        ELSE copyResponse(transcript)],
          err |-> "nil"]

\* MemoryRepository.Save: [cache, err]
RepoSave(videoID, transcript, ctxDone) ==
    IF videoID = <<>> THEN [cache |-> cache, err |-> "video ID cannot be empty"]
    ELSE IF transcript.nil THEN [cache |-> cache, err |-> "invalid transcript"]
    ELSE IF ctxDone THEN [cache |-> cache, err |-> "context canceled"]
    ELSE [cache |-> [id \in DOMAIN cache \cup {videoID} |->
                        IF id = videoID THEN copyResponse(transcript) ELSE cache[id]],
          err |-> "nil"]

\* A Clear that reports success and leaves the map as it is.
RepoClear_KeepsEntries(ctxDone) ==
    IF ctxDone THEN [cache |-> cache, err |-> "context canceled"]
    ELSE [cache |-> cache, err |-> "nil"]

\* MemoryRepository.Clear: [cache, err]
RepoClear(ctxDone) ==
    IF ctxDone THEN [cache |-> cache, err |-> "context canceled"]
    ELSE [cache |-> EmptyCache, err |-> "nil"]

\* MemoryRepository.Size
RepoSize == Cardinality(DOMAIN cache)

-----------------------------------------------------------------------------
(* internal/service: IsValidUrl, ExtractVideoId; internal/router *)

\* A Go string is a sequence of bytes holding UTF-8. The characters of this
\* model are ASCII, one byte each, but for E_acute, which stands for U+00E9
\* and takes two bytes. len(str) is the number of bytes.
E_acute == "U+00E9"

Utf8Len(c) == IF c = E_acute THEN 2 ELSE 1

ByteLen(str) == Len(str) + Cardinality({i \in 1..Len(str) : Utf8Len(str[i]) = 2})

IsHex(c) == IsDigit(c) \/ c \in {"a", "b", "c", "d", "e", "f", "A", "B", "C", "D", "E", "F"}

\* net/url getScheme: [ok, scheme, rest]
RECURSIVE getScheme(_, _)
getScheme(raw, i) ==
    IF i > Len(raw) THEN [ok |-> TRUE, scheme |-> <<>>, rest |-> raw]
    ELSE IF IsLetter(raw[i]) THEN getScheme(raw, i + 1)
    ELSE IF IsDigit(raw[i]) \/ raw[i] \in {"+", "-", "."}
         THEN IF i = 1 THEN [ok |-> TRUE, scheme |-> <<>>, rest |-> raw]
              ELSE getScheme(raw, i + 1)
    ELSE IF raw[i] = ":"
         THEN IF i = 1 THEN [ok |-> FALSE, scheme |-> <<>>, rest |-> <<>>]
              ELSE [ok |-> TRUE, scheme |-> SubSeq(raw, 1, i - 1),
                    rest |-> SubSeq(raw, i + 1, Len(raw))]
    ELSE [ok |-> TRUE, scheme |-> <<>>, rest |-> raw]

\* The characters net/url accepts unescaped in a host: these ASCII ones, and
\* every byte of a character outside ASCII.
HostChar(c) ==
    IsLetter(c) \/ IsDigit(c) \/ Utf8Len(c) > 1
    \/ c \in {"-", "_", ".", "~", "!", "$", "&", "'", "(", ")", "*", "+", ",", ";",
              "=", ":", "[", "]", "<", ">"}

\* Every "%" of a path starts a two-digit hex escape.
EscapesOK(path) ==
    \A i \in 1..Len(path) :
        path[i] = "%" => i + 2 <= Len(path) /\ IsHex(path[i + 1]) /\ IsHex(path[i + 2])

\* net/url parseHost, for hosts that are not IP literals: [ok, host]
parseHost(authority) ==
    LET at    == LastIndexOf(authority, "@")
        host  == SubSeq(authority, at + 1, Len(authority))
        colon == LastIndexOf(host, ":")
        port  == IF colon = 0 THEN <<>> ELSE SubSeq(host, colon + 1, Len(host))
    IN  IF \E k \in 1..Len(port) : ~IsDigit(port[k]) THEN [ok |-> FALSE, host |-> <<>>]
        ELSE IF \E k \in 1..Len(host) : ~HostChar(host[k]) THEN [ok |-> FALSE, host |-> <<>>]
        ELSE [ok |-> TRUE, host |-> host]

\* url.Parse, as far as its Host and its error go: [ok, Host]
ParseURL(rawURL) ==
    LET hash   == IndexOf(rawURL, "#")
        noFrag == IF hash = 0 THEN rawURL ELSE SubSeq(rawURL, 1, hash - 1)
        frag   == IF hash = 0 THEN <<>> ELSE SubSeq(rawURL, hash + 1, Len(rawURL))
        sch    == getScheme(noFrag, 1)
        q      == IndexOf(sch.rest, "?")
        rest   == IF q = 0 THEN sch.rest ELSE SubSeq(sch.rest, 1, q - 1)
        slash  == IndexOf(rest, "/")
        first  == IF slash = 0 THEN rest ELSE SubSeq(rest, 1, slash - 1)
        fail   == [ok |-> FALSE, Host |-> <<>>]
        noHost == [ok |-> TRUE, Host |-> <<>>]
    IN  IF ~sch.ok \/ ~EscapesOK(frag) THEN fail
        ELSE IF ~HasPrefix(rest, <<"/">>)
        THEN IF sch.scheme # <<>> THEN noHost
             ELSE IF IndexOf(first, ":") # 0 THEN fail
             ELSE IF EscapesOK(rest) THEN noHost ELSE fail
        ELSE IF HasPrefix(rest, <<"/", "/">>)
                /\ (sch.scheme # <<>> \/ ~HasPrefix(rest, <<"/", "/", "/">>))
        THEN LET after     == SubSeq(rest, 3, Len(rest))
                 cut       == IndexOf(after, "/")
                 authority == IF cut = 0 THEN after ELSE SubSeq(after, 1, cut - 1)
                 path      == IF cut = 0 THEN <<>> ELSE SubSeq(after, cut, Len(after))
                 h         == parseHost(authority)
             IN  IF ~h.ok \/ ~EscapesOK(path) THEN fail
                 ELSE [ok |-> TRUE, Host |-> h.host]
        ELSE IF EscapesOK(rest) THEN noHost ELSE fail

validDomains == { Chars("youtube.com"), Chars("youtu.be"), Chars("m.youtube.com") }

\* A comparison that accepts every host ending in a valid domain.
hostMatches_Suffix(host, domain) == HasSuffix(host, domain)

\* The comparison in the loop over validDomains.
hostMatches(host, domain) == host = domain

IsValidUrl(urlStr) ==
    LET parsedURL == ParseURL(urlStr)
        host      == TrimPrefix(ToLower(parsedURL.Host), Chars("www."))
    IN  parsedURL.ok /\ \E domain \in validDomains : hostMatches(host, domain)

IdLen == 11

IdChar(c) == IsLetter(c) \/ IsDigit(c) \/ c \in {"_", "-"}

\* Whether the pattern matches with its marker starting at i, and the end of
\* the marker then.
MarkerEnd(str, i) ==
    IF str[i] = "/" THEN i
    ELSE IF i + 2 <= Len(str) /\ SubSeq(str, i, i + 2) = <<"%", "3", "D">> THEN i + 2
    ELSE IF i + 1 <= Len(str) /\ SubSeq(str, i, i + 1) = <<"v", "=">> THEN i + 1
    ELSE IF i + 2 <= Len(str) /\ SubSeq(str, i, i + 2) = <<"v", "i", "=">> THEN i + 2
    ELSE 0

MatchAt(str, i) ==
    LET m == MarkerEnd(str, i)
    IN  /\ m # 0
        /\ m + IdLen <= Len(str)
        /\ \A k \in (m + 1)..(m + IdLen) : IdChar(str[k])
        /\ (m + IdLen = Len(str) \/ str[m + IdLen + 1] \in {"%", "#", "?", "&", "/"})

\* regex.FindStringSubmatch: the leftmost match's group
ExtractVideoId(str) ==
    IF ByteLen(str) = IdLen THEN str
    ELSE IF \E i \in 1..Len(str) : MatchAt(str, i)
    THEN LET i == CHOOSE i \in 1..Len(str) : MatchAt(str, i) /\ \A j \in 1..(i - 1) : ~MatchAt(str, j)
             m == MarkerEnd(str, i)
         IN  SubSeq(str, m + 1, m + IdLen)
    ELSE <<>>

\* handleGetTranscripts: the interval handed to the service
routerInterval(intervalStr) ==
    LET r == ParseFloat(intervalStr)
    IN  IF ~r.ok THEN 0 ELSE r.val

\* GetTranscripts: the interval handed to FormatTranscript
serviceInterval(intervalSeconds) ==
    IF FloatLE(intervalSeconds, 0) THEN 10 ELSE intervalSeconds

\* The body the router writes: a transcript, or an error message.
Body(title, segments, formatted, message) ==
    [title |-> title, segments |-> segments, formatted |-> formatted, message |-> message]

ErrorBody(message) == Body("", <<>>, <<>>, message)

\* handleGetTranscripts once GetTranscripts returned without an error a
\* response with this title, Raw (rawNil: a nil pointer) and Formatted.
writeResponse(title, rawNil, segments, formatted) ==
    IF rawNil /\ formatted = <<>>
    THEN [status |-> 404, body |-> ErrorBody("No transcript available")]
    ELSE [status |-> 200, body |-> Body(title, segments, formatted, "")]

\* GetTranscripts, the validation of the request: [err, videoID]
validateRequest_TrustsBareID(url, videoID) ==
    IF ByteLen(url) = IdLen THEN [err |-> "nil", videoID |-> url]
    ELSE IF url = <<>> \/ ~IsValidUrl(url)
    THEN [err |-> "invalid YouTube video URL", videoID |-> <<>>]
    ELSE LET id == IF videoID = <<>> THEN ExtractVideoId(url) ELSE videoID
         IN  IF id = <<>> THEN [err |-> "invalid YouTube video URL", videoID |-> <<>>]
             ELSE [err |-> "nil", videoID |-> id]

validateRequest(url, videoID) ==
    IF url = <<>> \/ ~IsValidUrl(url)
    THEN [err |-> "invalid YouTube video URL", videoID |-> <<>>]
    ELSE LET id == IF videoID = <<>> THEN ExtractVideoId(url) ELSE videoID
         IN  IF id = <<>> THEN [err |-> "invalid YouTube video URL", videoID |-> <<>>]
             ELSE [err |-> "nil", videoID |-> id]

\* A service that goes to the provider whatever the cache answered.
needFetch_Always(getErr) == TRUE

\* GetTranscripts fetches when repo.Get returned an error.
needFetch(getErr) == getErr # "nil"

\* A service that takes every fetched response as a transcript.
emptyFetch_Never(r) == FALSE

\* The test on the fetched response: no response, no transcript or no segment.
emptyFetch(r) == ~r.ok \/ Len(r.Segments) = 0

\* A service that hands out the groups stored with the response.
formatFor_Stored(stored, segments, interval) == stored

\* The Formatted of the answer: computed from the raw segments, whatever
\* groups the response at hand carries.
formatFor(stored, segments, interval) == FormatTranscript(segments, interval)

\* What GetTranscripts returns: an error, or a response.
ServiceError(err) ==
    [err |-> err, title |-> "", rawNil |-> TRUE, segments |-> <<>>, formatted |-> <<>>]

ServiceResponse(title, rawNil, segments, formatted) ==
    [err |-> "nil", title |-> title, rawNil |-> rawNil, segments |-> segments,
     formatted |-> formatted]

\* handleGetTranscripts once GetTranscripts returned this error.
writeServiceError(err) ==
    IF err = "invalid YouTube video URL"
    THEN [status |-> 400, body |-> ErrorBody("Invalid YouTube video URL")]
    ELSE [status |-> 500, body |-> ErrorBody("Internal server error")]

-----------------------------------------------------------------------------
(* Each specification drives one part of the program and leaves the state  *)
(* of the others as it is after construction.                              *)

FmtInit == fmtIn = <<>> /\ fmtCalled = FALSE /\ fmtInterval = 0 /\ fmtOut = <<>>

ParseInit ==
    /\ ttmlValid = TRUE /\ ttmlParas = <<>> /\ ttmlCalled = FALSE
    /\ ttmlOut = [segments |-> <<>>, err |-> <<>>]

Callers == {"c1", "c2"}

\* A caller that has not called GetTranscript: its context is live, no
\* request has been made.
IdleCall ==
    [pc |-> "idle", cancelled |-> FALSE, cancelAt |-> "never",
     metaCalls |-> 0, capCalls |-> 0, metaOK |-> FALSE,
     title |-> "", tracks |-> <<>>, url |-> "", kind |-> "none",
     result |-> NoResult]

FetchInit == gt = [c \in Callers |-> IdleCall]

Locals == {"t", "g1", "g2"}

RepoInit ==
    /\ cache = EmptyCache
    /\ heapT = <<>>
    /\ heapF = <<>>
    /\ loc = [v \in Locals |-> NilResp]
    /\ got = [v \in {"g1", "g2"} |-> [id |-> <<>>, fresh |-> FALSE]]
    /\ ret = [err |-> "nil", size |-> 0]
    /\ saved = EmptyCache

Clients == {"h1", "h2"}

\* A client that has sent nothing yet. Beside the request and the response
\* the record keeps what the call did: getErr is what repo.Get returned
\* ("none": not called), fetches and saves count the calls of
\* client.GetTranscript and repo.Save, fetched is how the fetch ended, and
\* svcErr is the error GetTranscripts returned ("none": not called).
IdleRequest ==
    [pc |-> "idle", cancelled |-> FALSE, cancelAt |-> "never",
     method |-> "", url |-> <<>>, intervalStr |-> <<>>, reqID |-> <<>>,
     interval |-> 0, videoID |-> <<>>, getErr |-> "none", fetches |-> 0,
     fetched |-> "none", saves |-> 0, svcErr |-> "none", class |-> "none",
     status |-> 0, body |-> ErrorBody("")]

SvcInit == svc = [h \in Clients |-> IdleRequest]

Threads == {"p1", "p2", "p3"}

\* The zero sync.RWMutex: w is the holder of its inner writer mutex, pending
\* says that a writer has told the readers it is there (readerCount is
\* negative), readers and writer are the holders of the lock.
FreeMutex == [w |-> "none", pending |-> FALSE, readers |-> {}, writer |-> "none"]

IdleThread == [pc |-> "idle", op |-> "none", err |-> "nil"]

LockInit == mu = FreeMutex /\ th = [t \in Threads |-> IdleThread]

UrlInit == urlParts = <<>> /\ urlFn = "none" /\ idOut = <<>> /\ validOut = FALSE

LblInit == lblCalled = FALSE /\ lblIn = 0 /\ lblOut = <<>>

Init ==
    /\ FmtInit /\ ParseInit /\ FetchInit /\ RepoInit /\ SvcInit /\ LockInit
    /\ UrlInit /\ LblInit

-----------------------------------------------------------------------------
(* SpecFormat: FormatTranscript applied to transcripts built from a pool of *)
(* segments as the parser produces them (trimmed text, never empty).        *)

Seg(text, start, dur) == [Text |-> text, StartTime |-> start, Duration |-> dur]

SegPool ==
    { Seg(<<"a">>, 0, 4), Seg(<<"b">>, 4, 5), Seg(<<"c", " ", "d">>, 9, 6),
      Seg(<<"e">>, 15, 2), Seg(<<"f">>, 3725, 1) }

Intervals == {0, 5, 10}

AddSegment ==
    /\ ~fmtCalled
    /\ Len(fmtIn) < MaxSegs
    /\ \E s \in SegPool : fmtIn' = Append(fmtIn, s)
    /\ UNCHANGED <<fmtCalled, fmtInterval, fmtOut>> /\ UNCHANGED notFmt

CallFormatTranscript ==
    /\ ~fmtCalled
    /\ fmtCalled' = TRUE
    /\ \E iv \in Intervals :
        /\ fmtInterval' = iv
        /\ fmtOut' = FormatTranscript(fmtIn, iv)
    /\ UNCHANGED fmtIn /\ UNCHANGED notFmt

InitFormat == Init
NextFormat == AddSegment \/ CallFormatTranscript
SpecFormat == InitFormat /\ [][NextFormat]_vars

-----------------------------------------------------------------------------
(* SpecParse: parseTTMLTranscript applied to documents built from a pool   *)
(* of paragraphs.                                                          *)

Para(begin, end, text) == [Begin |-> begin, End |-> end, Text |-> text]

T_1s     == <<"1", "s">>
T_3s     == <<"3", "s">>
T_0_0_2  == <<"0", ":", "0", "0", ":", "0", "2">>
T_0_1_5  == <<"0", ":", "0", "1", ":", "0", "5">>
T_abc    == <<"a", "b", "c">>
T_0_x_0  == <<"0", ":", "x", ":", "0">>
T_1_02   == <<"1", ":", "0", "2">>
T_xs     == <<"x", "s">>

ParaPool ==
    { Para(T_1s, T_3s, <<" ", "a", " ">>),
      Para(T_0_0_2, T_0_1_5, <<"b">>),
      Para(T_abc, T_3s, <<"c">>),
      Para(T_1s, T_0_x_0, <<"d">>),
      Para(T_3s, T_1s, <<"e">>),
      Para(T_1s, T_3s, <<" ", "\n">>),
      Para(T_1_02, T_3s, <<"g">>),
      Para(T_1s, T_xs, <<"h", " ", "i", "\n">>) }

AddParagraph ==
    /\ ~ttmlCalled
    /\ Len(ttmlParas) < MaxParas
    /\ \E p \in ParaPool : ttmlParas' = Append(ttmlParas, p)
    /\ UNCHANGED <<ttmlValid, ttmlCalled, ttmlOut>> /\ UNCHANGED notParse

\* The document is one xml.Decoder rejects.
BreakDocument ==
    /\ ~ttmlCalled
    /\ ttmlValid
    /\ ttmlValid' = FALSE
    /\ UNCHANGED <<ttmlParas, ttmlCalled, ttmlOut>> /\ UNCHANGED notParse

CallParseTTML ==
    /\ ~ttmlCalled
    /\ ttmlCalled' = TRUE
    /\ ttmlOut' = parseTTMLTranscript(ttmlValid, ttmlParas)
    /\ UNCHANGED <<ttmlValid, ttmlParas>> /\ UNCHANGED notParse

InitParse == Init
NextParse == AddParagraph \/ BreakDocument \/ CallParseTTML
SpecParse == InitParse /\ [][NextParse]_vars

-----------------------------------------------------------------------------
(* SpecFetch: callers run Client.GetTranscript against a provider whose    *)
(* answers are drawn from small pools; a caller's context may be cancelled *)
(* at any moment.                                                          *)

Track(url, vss, lang) == [BaseURL |-> url, VssID |-> vss, LanguageCode |-> lang]

Vss_es   == <<".", "e", "s">>
Vss_a_en == <<"a", ".", "e", "n">>
Vss_enGB == <<".", "e", "n", "-", "G", "B">>

MetaDocs ==
    { [Title |-> "T", CaptionTracks |-> <<>>],
      [Title |-> "T", CaptionTracks |-> <<Track("u_es", Vss_es, "es")>>],
      [Title |-> "",  CaptionTracks |-> <<Track("u_es", Vss_es, "es"),
                                          Track("u_en", Vss_a_en, "en")>>],
      [Title |-> "T", CaptionTracks |-> <<Track("u_es", Vss_es, "es"),
                                          Track("u_gb", Vss_enGB, "en-GB"),
                                          Track("u_en", Vss_a_en, "en")>>],
      [Title |-> "T", CaptionTracks |-> <<Track("u_es", Vss_es, "es"),
                                          Track("", Vss_a_en, "en")>>] }

TtmlDocs ==
    { [valid |-> FALSE, paras |-> <<>>],
      [valid |-> TRUE,  paras |-> <<>>],
      [valid |-> TRUE,  paras |-> <<Para(T_1s, T_3s, <<" ", "a", " ">>),
                                    Para(T_abc, T_3s, <<"c">>),
                                    Para(T_3s, T_0_1_5, <<"b">>),
                                    Para(T_0_1_5, T_0_1_5, <<"d">>)>>] }

StatusCodes == {"404", "500"}

Outcome(kind, cause, code, doc) == [kind |-> kind, cause |-> cause, code |-> code, doc |-> doc]

\* What httpClient.Do can meet. The request carries ctx: a context cancelled
\* before the call makes Do fail, and "context canceled" is a cause only
\* once the context is cancelled.
MetaOutcomes(call) ==
    LET nodoc == NoResponse
        live  == { Outcome("neterr", "connection refused", "", nodoc),
                   Outcome("badjson", "unexpected EOF", "", nodoc) }
                 \cup { Outcome("status", "", code, nodoc) : code \in StatusCodes }
                 \cup { Outcome("ok", "", "", d) : d \in MetaDocs }
        dead  == { Outcome("neterr", "context canceled", "", nodoc) }
    IN  IF call.cancelAt = "idle" THEN dead
        ELSE IF call.cancelled THEN live \cup dead
        ELSE live

\* What httpClient.Get and the read of its body can meet. The request is
\* made without ctx.
CaptionOutcomes ==
    LET nodoc == [valid |-> FALSE, paras |-> <<>>]
    IN  { Outcome("neterr", "connection refused", "", nodoc),
          Outcome("readerr", "unexpected EOF", "", nodoc) }
        \cup { Outcome("status", "", code, nodoc) : code \in StatusCodes }
        \cup { Outcome("ok", "", "", d) : d \in TtmlDocs }

\* The kind of failure the provider caused, with its stage.
MetaKind(o) ==
    CASE o.kind = "neterr"  -> "network@1"
      [] o.kind = "status"  -> "status@1"
      [] o.kind = "badjson" -> "decode@1"
      [] OTHER -> IF Len(o.doc.CaptionTracks) = 0 THEN "notracks" ELSE "none"

CaptionKind(o) ==
    CASE o.kind = "neterr"  -> "network@2"
      [] o.kind = "status"  -> "status@2"
      [] o.kind = "readerr" -> "read@2"
      [] OTHER -> IF o.doc.valid THEN "none" ELSE "decode@2"

\* The caller's context is cancelled.
Cancel(c) ==
    /\ ~gt[c].cancelled
    /\ gt[c].pc # "done"
    /\ gt' = [gt EXCEPT ![c].cancelled = TRUE, ![c].cancelAt = gt[c].pc]
    /\ UNCHANGED notFetch

\* GetTranscript is called and getPlayerResponse hands its request to
\* httpClient.Do.
StartGetTranscript(c) ==
    /\ gt[c].pc = "idle"
    /\ gt' = [gt EXCEPT ![c].pc = "stage1", ![c].metaCalls = @ + 1]
    /\ UNCHANGED notFetch

\* httpClient.Do returns; GetTranscript runs up to the caption download.
PlayerResponseReturns(c) ==
    /\ gt[c].pc = "stage1"
    /\ \E o \in MetaOutcomes(gt[c]) :
        LET b == beforeDownload(o)
        IN  gt' = [gt EXCEPT
                ![c].pc = IF b.next = "done" THEN "done" ELSE "selected",
                ![c].metaOK = (getPlayerResponse(o).err = <<>>),
                ![c].title = b.title,
                ![c].tracks = b.tracks,
                ![c].url = b.url,
                ![c].kind = MetaKind(o),
                ![c].result = [NoResult EXCEPT !.err = b.err]]
    /\ UNCHANGED notFetch

\* httpClient.Get(ttmlURL)
IssueCaptionGet(c) ==
    /\ gt[c].pc = "selected"
    /\ gt' = [gt EXCEPT ![c].pc = "stage2", ![c].capCalls = @ + 1]
    /\ UNCHANGED notFetch

\* httpClient.Get returns; GetTranscript runs to its end.
CaptionReturns(c) ==
    /\ gt[c].pc = "stage2"
    /\ \E o \in CaptionOutcomes :
        gt' = [gt EXCEPT
                ![c].pc = "done",
                ![c].kind = CaptionKind(o),
                ![c].result = afterDownload(gt[c].title, o)]
    /\ UNCHANGED notFetch

InitFetch == Init
NextFetch ==
    \E c \in Callers :
        \/ Cancel(c)
        \/ StartGetTranscript(c)
        \/ PlayerResponseReturns(c)
        \/ IssueCaptionGet(c)
        \/ CaptionReturns(c)
SpecFetch == InitFetch /\ [][NextFetch]_vars

-----------------------------------------------------------------------------
(* SpecRepo: one caller uses the repository directly. It builds responses, *)
(* saves its t, gets copies into g1 and g2, and writes through any of its  *)
(* variables, as Go lets the holder of a struct with a pointer and a slice *)
(* do.                                                                     *)

SegA == Seg(<<"a">>, 0, 4)

NewSegments  == { <<SegA>> }
NewFormatted == { <<>>, <<"(00:00) a b">> }

\* t = &TranscriptResponse{Title, Raw: &Transcript{Segments}, Formatted}
NewResponse ==
    /\ Len(heapT) < MaxObjs
    /\ \E title \in {"T1"}, segs \in NewSegments, formatted \in NewFormatted :
        LET a == Len(heapT) + 1
        IN  /\ heapT' = Append(heapT, segs)
            /\ heapF' = Append(heapF, formatted)
            /\ loc' = [loc EXCEPT !["t"] =
                          Resp(title, a, IF formatted = <<>> THEN 0 ELSE a)]
    /\ UNCHANGED <<cache, got, ret, saved>> /\ UNCHANGED notRepo

\* err = repo.Save(ctx, id, t)
SaveCall(id, ctxDone) ==
    LET r == RepoSave(id, loc["t"], ctxDone)
    IN  /\ cache' = r.cache
        /\ ret' = [err |-> r.err, size |-> 0]
        /\ got' = IF r.err = "nil"
                  THEN [v \in {"g1", "g2"} |-> [id |-> <<>>, fresh |-> FALSE]]
                  ELSE got
        /\ saved' = IF r.err = "nil"
                    THEN [i \in DOMAIN saved \cup {id} |->
                            IF i = id THEN loc["t"] ELSE saved[i]]
                    ELSE saved
        /\ UNCHANGED <<heapT, heapF, loc>> /\ UNCHANGED notRepo

Save == \E id \in IDs \cup {<<>>}, ctxDone \in BOOLEAN : SaveCall(id, ctxDone)

\* g, err = repo.Get(ctx, id)
GetCall(id, g, ctxDone) ==
    LET r == RepoGet(id, ctxDone)
    IN  /\ loc' = [loc EXCEPT ![g] = r.resp]
        /\ ret' = [err |-> r.err, size |-> 0]
        /\ got' = [got EXCEPT ![g] = IF r.err = "nil" THEN [id |-> id, fresh |-> TRUE]
                                 ELSE [id |-> <<>>, fresh |-> FALSE]]
        /\ UNCHANGED <<cache, heapT, heapF, saved>> /\ UNCHANGED notRepo

Get == \E id \in IDs \cup {<<>>}, g \in {"g1", "g2"}, ctxDone \in BOOLEAN : GetCall(id, g, ctxDone)

\* err = repo.Clear(ctx)
ClearCall(ctxDone) ==
    LET r == RepoClear(ctxDone)
    IN  /\ cache' = r.cache
        /\ ret' = [err |-> r.err, size |-> 0]
        /\ got' = IF r.err = "nil"
                  THEN [v \in {"g1", "g2"} |-> [id |-> <<>>, fresh |-> FALSE]]
                  ELSE got
        /\ saved' = IF r.err = "nil" THEN EmptyCache ELSE saved
        /\ UNCHANGED <<heapT, heapF, loc>> /\ UNCHANGED notRepo

Clear == \E ctxDone \in BOOLEAN : ClearCall(ctxDone)

\* n = repo.Size()
Size ==
    /\ ret' = [err |-> "nil", size |-> RepoSize]
    /\ UNCHANGED <<cache, heapT, heapF, loc, got, saved>> /\ UNCHANGED notRepo

\* v.Title = "edited"
WriteTitle(v) ==
    /\ ~loc[v].nil
    /\ loc[v].Title # "edited"
    /\ loc' = [loc EXCEPT ![v].Title = "edited"]
    /\ UNCHANGED <<cache, heapT, heapF, got, ret, saved>> /\ UNCHANGED notRepo

\* v.Raw.Segments[i].Text = "x"
WriteSegment(v) ==
    /\ ~loc[v].nil
    /\ loc[v].Raw # 0
    /\ \E i \in 1..Len(heapT[loc[v].Raw]) :
        /\ heapT[loc[v].Raw][i].Text # <<"x">>
        /\ heapT' = [heapT EXCEPT ![loc[v].Raw][i].Text = <<"x">>]
    /\ UNCHANGED <<cache, heapF, loc, got, ret, saved>> /\ UNCHANGED notRepo

\* v.Formatted[i] = "edited"
WriteFormatted(v) ==
    /\ ~loc[v].nil
    /\ loc[v].Formatted # 0
    /\ \E i \in 1..Len(heapF[loc[v].Formatted]) :
        /\ heapF[loc[v].Formatted][i] # "edited"
        /\ heapF' = [heapF EXCEPT ![loc[v].Formatted][i] = "edited"]
    /\ UNCHANGED <<cache, heapT, loc, got, ret, saved>> /\ UNCHANGED notRepo

\* The caller writes through one of its variables.
Mutate(v) == WriteTitle(v) \/ WriteSegment(v) \/ WriteFormatted(v)

InitRepo == Init
NextRepo ==
    \/ NewResponse
    \/ Save
    \/ Get
    \/ Clear
    \/ Size
    \/ \E v \in Locals : Mutate(v)
SpecRepo == InitRepo /\ [][NextRepo]_vars

-----------------------------------------------------------------------------
(* SpecLock: goroutines call Get, Save, Clear and Size on one               *)
(* MemoryRepository. A call is followed through r.cacheLock: sync.RWMutex   *)
(* is modelled by the steps of its Lock, RLock, Unlock and RUnlock.         *)

Ops == {"Get", "Save", "Clear", "Size"}

\* A Save that takes the read lock.
lockKind_AllRead(op) == "r"

\* The lock a method takes: Lock in Save and Clear, RLock in Get and Size.
lockKind(op) == IF op \in {"Save", "Clear"} THEN "w" ELSE "r"

\* The entry the goroutines save: a response without a transcript object.
SavedEntry == Resp("T1", 0, 0)

\* rw.w.Lock() can return.
wFree == mu.w = "none"

\* The readers a writer waits for have left.
Drained == mu.readers = {}

At(t, pc) == th[t].pc = pc

Goto(t, pc) == [th EXCEPT ![t].pc = pc]

\* A method is called. Get and Save return before the lock when the video
\* id is empty, Save also when the transcript is nil.
Call(t) ==
    /\ At(t, "idle")
    /\ \E op \in Ops, argsOK \in BOOLEAN :
        /\ argsOK \/ op \in {"Get", "Save"}
        /\ th' = [th EXCEPT ![t] =
                    IF ~argsOK THEN [pc |-> "idle", op |-> op, err |-> "invalid"]
                    ELSE [pc |-> IF lockKind(op) = "w" THEN "Lock" ELSE "RLock",
                          op |-> op, err |-> "nil"]]
    /\ UNCHANGED <<mu, cache>> /\ UNCHANGED notLock

\* RLock: the reader is counted; it holds the lock at once unless a writer
\* is pending, and then sleeps until that writer's Unlock.
RLock(t) ==
    /\ At(t, "RLock")
    /\ IF mu.pending
       THEN th' = Goto(t, "rwait") /\ mu' = mu
       ELSE th' = Goto(t, "cs") /\ mu' = [mu EXCEPT !.readers = @ \cup {t}]
    /\ UNCHANGED cache /\ UNCHANGED notLock

\* Lock, first step: rw.w.Lock()
LockW(t) ==
    /\ At(t, "Lock")
    /\ wFree
    /\ mu' = [mu EXCEPT !.w = t]
    /\ th' = Goto(t, "announce")
    /\ UNCHANGED cache /\ UNCHANGED notLock

\* Lock, second step: the readers are told a writer is pending.
Announce(t) ==
    /\ At(t, "announce")
    /\ mu' = [mu EXCEPT !.pending = TRUE]
    /\ th' = Goto(t, "drain")
    /\ UNCHANGED cache /\ UNCHANGED notLock

\* Lock returns once the active readers have left.
Drain(t) ==
    /\ At(t, "drain")
    /\ Drained
    /\ mu' = [mu EXCEPT !.writer = t]
    /\ th' = Goto(t, "cs")
    /\ UNCHANGED cache /\ UNCHANGED notLock

\* The body of the method, under the lock: the select on ctx.Done() and the
\* map access.
CriticalSection(t) ==
    /\ At(t, "cs")
    /\ \E id \in IDs, ctxDone \in BOOLEAN :
        LET g == RepoGet(id, ctxDone)
            s == RepoSave(id, SavedEntry, ctxDone)
            c == RepoClear(ctxDone)
            op == th[t].op
        IN  /\ cache' = CASE op = "Save"  -> s.cache
                          [] op = "Clear" -> c.cache
                          [] OTHER        -> cache
            /\ th' = [th EXCEPT ![t].pc = "deferred",
                                ![t].err = CASE op = "Get"   -> g.err
                                             [] op = "Save"  -> s.err
                                             [] op = "Clear" -> c.err
                                             [] OTHER        -> "nil"]
    /\ UNCHANGED mu /\ UNCHANGED notLock

\* The deferred RUnlock
RUnlock(t) ==
    /\ At(t, "deferred")
    /\ t \in mu.readers
    /\ mu' = [mu EXCEPT !.readers = @ \ {t}]
    /\ th' = Goto(t, "idle")
    /\ UNCHANGED cache /\ UNCHANGED notLock

\* The deferred Unlock, first step: the readers are told the writer is
\* gone, and those that slept hold the lock.
Unlock(t) ==
    /\ At(t, "deferred")
    /\ mu.writer = t
    /\ LET woken == {u \in Threads : th[u].pc = "rwait"}
       IN  /\ mu' = [mu EXCEPT !.writer = "none", !.pending = FALSE, !.readers = woken]
           /\ th' = [u \in Threads |->
                        IF u = t THEN [th[u] EXCEPT !.pc = "release"]
                        ELSE IF u \in woken THEN [th[u] EXCEPT !.pc = "cs"]
                        ELSE th[u]]
    /\ UNCHANGED cache /\ UNCHANGED notLock

\* The deferred Unlock, second step: rw.w.Unlock()
UnlockW(t) ==
    /\ At(t, "release")
    /\ mu' = [mu EXCEPT !.w = "none"]
    /\ th' = Goto(t, "idle")
    /\ UNCHANGED cache /\ UNCHANGED notLock

InitLock == Init
NextLock ==
    \E t \in Threads :
        \/ Call(t)
        \/ RLock(t)
        \/ LockW(t)
        \/ Announce(t)
        \/ Drain(t)
        \/ CriticalSection(t)
        \/ RUnlock(t)
        \/ Unlock(t)
        \/ UnlockW(t)
SpecLock == InitLock /\ [][NextLock]_vars

-----------------------------------------------------------------------------
(* SpecExtract: ExtractVideoId applied to strings put together from pieces. *)

Id_dQw == Chars("dQw4w9WgXcQ")

IdPieces ==
    { Chars("https://youtu.be/"), Chars("watch?v="), Chars("vi="), Chars("%3D"),
      Chars("/"), Chars("?"), Chars("&t=1"), Chars("not a url"), Chars("x"),
      Id_dQw, Chars("a-b_c-d_e-f"), Chars("0123456789"), <<E_acute>> }

\* The string the pieces spell.
RECURSIVE Concat(_)
Concat(parts) == IF parts = <<>> THEN <<>> ELSE Head(parts) \o Concat(Tail(parts))

urlIn == Concat(urlParts)

AddIdPiece ==
    /\ urlFn = "none"
    /\ Len(urlParts) < MaxPieces
    /\ \E piece \in IdPieces : urlParts' = Append(urlParts, piece)
    /\ UNCHANGED <<urlFn, idOut, validOut>> /\ UNCHANGED notUrl

CallExtractVideoId ==
    /\ urlFn = "none"
    /\ urlFn' = "ExtractVideoId"
    /\ idOut' = ExtractVideoId(urlIn)
    /\ UNCHANGED <<urlParts, validOut>> /\ UNCHANGED notUrl

InitExtract == Init
NextExtract == AddIdPiece \/ CallExtractVideoId
SpecExtract == InitExtract /\ [][NextExtract]_vars

-----------------------------------------------------------------------------
(* SpecValid: IsValidUrl applied to strings made of a scheme part, a host   *)
(* and what follows the host.                                               *)

SchemePieces ==
    { Chars("https://"), Chars("HTTP://"), Chars("ftp://"), Chars("//"),
      Chars("mailto:"), <<>> }

HostPieces ==
    { Chars("youtube.com"), Chars("www.youtube.com"), Chars("WWW.YouTube.COM"),
      Chars("youtu.be"), Chars("m.youtube.com"), Chars("www.m.youtube.com"),
      Chars("www.www.youtube.com"), Chars("evil.com"), Chars("notyoutube.com"),
      Chars("youtube.com.evil.com"), Chars("youtube.com:443"),
      Chars("you tube.com"), Chars("user@youtu.be") }

TailPieces ==
    { Chars("/watch?v=dQw4w9WgXcQ"), Chars("/youtube.com"), Chars("?u=youtube.com"),
      Chars("#youtube.com"), Chars("/%zz"), Chars("/") }

AddUrlPiece ==
    /\ urlFn = "none"
    /\ Len(urlParts) < MaxPieces
    /\ \E piece \in CASE Len(urlParts) = 0 -> SchemePieces
                      [] Len(urlParts) = 1 -> HostPieces
                      [] OTHER             -> TailPieces :
            urlParts' = Append(urlParts, piece)
    /\ UNCHANGED <<urlFn, idOut, validOut>> /\ UNCHANGED notUrl

CallIsValidUrl ==
    /\ urlFn = "none"
    /\ urlFn' = "IsValidUrl"
    /\ validOut' = IsValidUrl(urlIn)
    /\ UNCHANGED <<urlParts, idOut>> /\ UNCHANGED notUrl

InitValid == Init
NextValid == AddUrlPiece \/ CallIsValidUrl
SpecValid == InitValid /\ [][NextValid]_vars

-----------------------------------------------------------------------------
(* SpecLabel: formatTimeText applied to a whole number of seconds.         *)

\* Every second of the first two hours, and times around a day and a
\* hundred hours.
StartTimes == 0..MaxSeconds \cup {86399, 86400, 359999, 360000, 363725}

CallFormatTimeText ==
    /\ ~lblCalled
    /\ lblCalled' = TRUE
    /\ \E startTime \in StartTimes :
        /\ lblIn' = startTime
        /\ lblOut' = formatTimeText(startTime, <<"a">>)
    /\ UNCHANGED notLbl

InitLabel == Init
NextLabel == CallFormatTimeText
SpecLabel == InitLabel /\ [][NextLabel]_vars

-----------------------------------------------------------------------------
(* SpecSvc: clients send requests to /api/v1/transcripts. A request runs   *)
(* Router.handleGetTranscripts and Transcript.GetTranscripts against the   *)
(* repository; the one place it waits is the provider fetch.               *)

Url_watch   == Chars("https://www.youtube.com/watch?v=dQw4w9WgXcQ")
Url_short   == Chars("https://youtu.be/abcdefghijk")
Url_evil    == Chars("https://evil.com/youtube.com")
Url_noid    == Chars("https://m.youtube.com/")
Url_bare    == Chars("dQw4w9WgXcQ")
Url_badhost == Chars("https://you tube.com/watch?v=dQw4w9WgXcQ")

UrlPool == {Url_watch, Url_short, Url_evil, Url_noid, Url_bare, Url_badhost, <<>>}

IntervalStrs == {<<>>, Chars("abc"), Chars("-5"), Chars("0"), Chars("2"), Chars("NaN")}

\* A request is an HTTP request to /api/v1/transcripts (GET or POST) with
\* its videoUrl and interval parameters, or a direct call (CALL) of
\* GetTranscripts with TranscriptRequest{VideoURL: url, VideoID: videoID,
\* IntervalSeconds: the number intervalStr spells}.
Request(method, url, intervalStr, videoID) ==
    [method |-> method, url |-> url, intervalStr |-> intervalStr, videoID |-> videoID]

Requests ==
    { Request("GET", u, Chars("2"), <<>>) : u \in UrlPool }
    \cup { Request("GET", u, i, <<>>) : u \in {Url_watch, Url_short}, i \in IntervalStrs }
    \cup { Request("POST", Url_watch, <<>>, <<>>) }
    \cup { Request("CALL", u, Chars("2"), <<>>) : u \in {<<>>, Url_bare, Url_noid, Url_watch} }
    \cup { Request("CALL", u, Chars("2"), VidB) : u \in {Url_evil, Url_noid, Url_watch} }

\* For each request of the model, what the router's and the service's first
\* lines make of it: the interval handed to FormatTranscript and the
\* outcome of the validation.
Prepared ==
    [req \in Requests |->
        [interval |-> serviceInterval(routerInterval(req.intervalStr)),
         v        |-> validateRequest(req.url, req.videoID)]]

\* The router's answer to what GetTranscripts returned.
routerWrite(res) ==
    IF res.err # "nil" THEN writeServiceError(res.err)
    ELSE writeResponse(res.title, res.rawNil, res.segments, res.formatted)

\* What a direct caller holds once GetTranscripts returned.
callerHolds(res) ==
    [status |-> 0,
     body |-> IF res.err # "nil" THEN ErrorBody(res.err)
              ELSE Body(res.title, res.segments, res.formatted, "")]

\* The request is taken up: its fields are on record.
Taken(h, req) ==
    [svc[h] EXCEPT !.method = req.method, !.url = req.url,
                   !.intervalStr = req.intervalStr, !.reqID = req.videoID]

\* The router answers without calling the service.
Refuse(rec, class, status, message) ==
    [rec EXCEPT !.pc = "done", !.class = class, !.status = status,
                !.body = ErrorBody(message)]

\* GetTranscripts returns res, and the router, if the request came through
\* it, writes the answer.
Return(rec, class, res) ==
    LET w == IF rec.method = "CALL" THEN callerHolds(res) ELSE routerWrite(res)
    IN  [rec EXCEPT !.pc = "done", !.class = class, !.svcErr = res.err,
                    !.status = w.status, !.body = w.body]

\* The client goes away: the request's context is cancelled.
Disconnect(h) ==
    /\ ~svc[h].cancelled
    /\ svc[h].pc # "done"
    /\ svc' = [svc EXCEPT ![h].cancelled = TRUE, ![h].cancelAt = svc[h].pc]
    /\ UNCHANGED <<cache, heapT, heapF>> /\ UNCHANGED notSvc

\* GetTranscripts once repo.Get answered hit: a response from the cached
\* entry, or the provider fetch begins.
Served(rec, interval, hit, segments, stored) ==
    LET called == [rec EXCEPT !.getErr = hit.err]
    IN  IF ~needFetch(hit.err)
        THEN Return(called, "ok",
                    ServiceResponse(hit.resp.Title, hit.resp.Raw = 0, segments,
                                    formatFor(stored, segments, interval)))
        ELSE [called EXCEPT !.pc = "fetching", !.fetches = @ + 1]

\* GetTranscripts once the request is validated (v): ErrInvalidURL, or it
\* goes on with what the cache holds for the video id.
Validated(rec, interval, v, hit) ==
    IF v.err # "nil"
    THEN Return(rec, "badurl", ServiceError(v.err))
    ELSE Served([rec EXCEPT !.videoID = v.videoID], interval, hit,
                IF hit.resp.Raw = 0 THEN <<>> ELSE heapT[hit.resp.Raw],
                IF hit.resp.Formatted = 0 THEN <<>> ELSE heapF[hit.resp.Formatted])

\* GetTranscripts is called with this interval; repo.Get is asked under the
\* context of the request.
Called(rec, cancelled, interval, v) ==
    Validated([rec EXCEPT !.interval = interval], interval, v,
              RepoGet(v.videoID, cancelled))

\* handleGetTranscripts and GetTranscripts up to the answer of the cache:
\* the request is refused, or served from the cache, or the provider fetch
\* begins.
HandleRequest(h) ==
    /\ svc[h].pc = "idle"
    /\ \E req \in Requests :
        svc' = [svc EXCEPT ![h] =
                IF req.method = "POST"
                THEN Refuse(Taken(h, req), "method", 405, "Method not allowed")
                ELSE IF req.method = "GET" /\ req.url = <<>>
                THEN Refuse(Taken(h, req), "badurl", 400, "Missing videoUrl parameter")
                ELSE Called(Taken(h, req), svc[h].cancelled,
                            Prepared[req].interval, Prepared[req].v)]
    /\ UNCHANGED <<cache, heapT, heapF>> /\ UNCHANGED notSvc

\* client.GetTranscript returns and GetTranscripts runs to its end: the
\* result is checked, saved, formatted and returned.
FetchReturns(h) ==
    /\ svc[h].pc = "fetching"
    /\ \E r \in { GetTranscript(o1, o2) :
                        o1 \in MetaOutcomes(svc[h]), o2 \in CaptionOutcomes } :
        LET a    == Len(heapT) + 1
            save == RepoSave(svc[h].videoID, Resp(r.Title, a, 0), svc[h].cancelled)
        IN  IF r.err # <<>>
            THEN /\ svc' = [svc EXCEPT ![h] =
                        Return([svc[h] EXCEPT !.fetched = "err"], "fail",
                               ServiceError("failed to get transcript"))]
                 /\ UNCHANGED <<cache, heapT, heapF>>
            ELSE IF emptyFetch(r)
            THEN /\ svc' = [svc EXCEPT ![h] =
                        Return([svc[h] EXCEPT !.fetched = "ok"], "empty",
                               ServiceError("no transcript available"))]
                 /\ UNCHANGED <<cache, heapT, heapF>>
            ELSE /\ heapT' = Append(heapT, r.Segments)
                 /\ heapF' = Append(heapF, <<>>)
                 /\ cache' = save.cache
                 /\ svc' = [svc EXCEPT ![h] =
                        Return([svc[h] EXCEPT !.fetched = "ok", !.saves = @ + 1], "ok",
                               ServiceResponse(r.Title, FALSE, r.Segments,
                                               formatFor(<<>>, r.Segments, svc[h].interval)))]
    /\ UNCHANGED notSvc

InitSvc == Init
NextSvc ==
    \E h \in Clients :
        \/ Disconnect(h)
        \/ HandleRequest(h)
        \/ FetchReturns(h)
SpecSvc == InitSvc /\ [][NextSvc]_vars

-----------------------------------------------------------------------------
(* Properties of FormatTranscript (SpecFormat) *)

RECURSIVE JoinSp(_)
JoinSp(texts) ==
    IF texts = <<>> THEN <<>>
    ELSE IF Len(texts) = 1 THEN texts[1]
    ELSE texts[1] \o <<" ">> \o JoinSp(Tail(texts))

TextsOf(segs) == [k \in 1..Len(segs) |-> segs[k].Text]

\* The index of the segment that anchors the group segment i falls in: the
\* first segment anchors the first group, and a later segment anchors a new
\* group when it starts at least the interval after the current anchor and
\* the pending group has text.
RECURSIVE AnchorOf(_, _, _)
AnchorOf(segs, iv, i) ==
    IF i = 1 THEN 1
    ELSE LET a == AnchorOf(segs, iv, i - 1)
         IN  IF segs[i].StartTime - segs[a].StartTime >= iv
                /\ JoinSp(TextsOf(SubSeq(segs, a, i - 1))) # <<>>
             THEN i ELSE a

RECURSIVE SortedSeq(_)
SortedSeq(S) ==
    IF S = {} THEN <<>>
    ELSE LET m == CHOOSE x \in S : \A y \in S : x <= y
         IN  <<m>> \o SortedSeq(S \ {m})

GroupsByRule(segs, iv) ==
    LET anchors == SortedSeq({i \in 1..Len(segs) : AnchorOf(segs, iv, i) = i})
        last(k) == IF k = Len(anchors) THEN Len(segs) ELSE anchors[k + 1] - 1
    IN  [k \in 1..Len(anchors) |->
            formatTimeLabel(segs[anchors[k]].StartTime)
                \o JoinSp(TextsOf(SubSeq(segs, anchors[k], last(k))))]

StartsOf(segs) == [k \in 1..Len(segs) |-> segs[k].StartTime]

\* "(00:00) a b c d" and "(00:15) e"
Example_0_4_9_15 ==
    << <<"(", "0", "0", ":", "0", "0", ")", " ", "a", " ", "b", " ", "c", " ", "d">>,
       <<"(", "0", "0", ":", "1", "5", ")", " ", "e">> >>

\* C5: FormatTranscript closes the pending group and opens one anchored at
\* the current segment exactly when that segment starts at least
\* intervalSeconds after the group's anchor and the pending group is
\* non-empty; each group is its anchor's time label followed by its texts
\* joined by single spaces. Starts [0,4,9,15] with interval 10 give the two
\* groups anchored at 0 and 15.
C5_GroupingRule ==
    fmtCalled =>
        /\ fmtOut = GroupsByRule(fmtIn, fmtInterval)
        /\ (StartsOf(fmtIn) = <<0, 4, 9, 15>> /\ fmtInterval = 10
                => fmtOut = Example_0_4_9_15)

C5_Witness ==
    /\ fmtCalled
    /\ StartsOf(fmtIn) = <<0, 4, 9, 15>>
    /\ fmtInterval = 10
    /\ Len(fmtOut) = 2

\* The text of a formatted line: what follows the first ") ".
RECURSIVE StripLabel(_)
StripLabel(line) ==
    IF Len(line) < 2 THEN <<>>
    ELSE IF line[1] = ")" /\ line[2] = " " THEN SubSeq(line, 3, Len(line))
    ELSE StripLabel(Tail(line))

GroupTexts(groups) == [k \in 1..Len(groups) |-> StripLabel(groups[k])]

\* C6: for a non-empty transcript the groups partition the input: their
\* texts, taken in order, are all the segments' texts in input order, none
\* dropped and none repeated, and no group is empty.
C6_GroupsPartitionInput ==
    (fmtCalled /\ fmtIn # <<>>) =>
        /\ Len(fmtOut) >= 1
        /\ JoinSp(GroupTexts(fmtOut)) = JoinSp(TextsOf(fmtIn))
        /\ \A k \in 1..Len(fmtOut) : StripLabel(fmtOut[k]) # <<>>

C6_Witness ==
    /\ fmtCalled
    /\ Len(fmtIn) = MaxSegs
    /\ Len(fmtOut) >= 2
    /\ Len(fmtOut) < Len(fmtIn)

-----------------------------------------------------------------------------
(* Properties of parseTTMLTranscript (SpecParse) *)

IsDigits(s) == s # <<>> /\ \A k \in 1..Len(s) : IsDigit(s[k])

\* The two accepted forms: digits followed by "s", or three fields of digits
\* separated by colons.
SuffixForm(s) == Len(s) >= 2 /\ s[Len(s)] = "s" /\ IsDigits(SubSeq(s, 1, Len(s) - 1))

ColonForm(s) ==
    \E i, j \in 1..Len(s) :
        /\ i < j /\ s[i] = ":" /\ s[j] = ":"
        /\ IsDigits(SubSeq(s, 1, i - 1))
        /\ IsDigits(SubSeq(s, i + 1, j - 1))
        /\ IsDigits(SubSeq(s, j + 1, Len(s)))

TimeParses(s) == SuffixForm(s) \/ ColonForm(s)

Usable(p) == TimeParses(p.Begin) /\ TimeParses(p.End) /\ TrimSpace(p.Text) # <<>>

SegmentOf(p) ==
    [Text |-> TrimSpace(p.Text), StartTime |-> parseTime(p.Begin).val,
     Duration |-> parseTime(p.End).val - parseTime(p.Begin).val]

UsableSegments(paras) ==
    LET usable == SelectSeq(paras, Usable)
    IN  [k \in 1..Len(usable) |-> SegmentOf(usable[k])]

\* C10: for a structurally valid document parseTTMLTranscript returns, without
\* an error, exactly the paragraphs whose begin and end parse and whose
\* trimmed text is non-empty, in document order, each with duration
\* end - begin, negative when end is before begin; three paragraphs of which
\* one has a non-numeric begin give two segments.
C10_ParserSkipsBadParagraphs ==
    (ttmlCalled /\ ttmlValid) =>
        /\ ttmlOut.err = <<>>
        /\ ttmlOut.segments = UsableSegments(ttmlParas)
        /\ (ttmlParas = <<Para(T_1s, T_3s, <<" ", "a", " ">>),
                          Para(T_abc, T_3s, <<"c">>),
                          Para(T_3s, T_1s, <<"e">>)>>
                => ttmlOut.segments = <<Seg(<<"a">>, 1, 2), Seg(<<"e">>, 3, -2)>>)

C10_Witness ==
    /\ ttmlCalled /\ ttmlValid
    /\ Len(ttmlParas) = 3
    /\ ~TimeParses(ttmlParas[2].Begin)
    /\ Len(ttmlOut.segments) = 2
    /\ ttmlOut.segments[2].Duration < 0

-----------------------------------------------------------------------------
(* Properties of Client.GetTranscript (SpecFetch) *)

IsCancellation(err) == \E k \in 1..Len(err) : err[k] = "context canceled"

\* C3: when the context is cancelled after the metadata request has
\* completed and before the caption download starts, the caption GET is
\* never issued and the call returns a cancellation error.
C3_CancelBetweenStagesStopsFetch ==
    \A c \in Callers :
        gt[c].cancelAt = "selected" =>
            /\ gt[c].capCalls = 0
            /\ (gt[c].pc = "done" => IsCancellation(gt[c].result.err))

\* The delivery URL of the first English track, or of the first track when
\* none is English.
PreferredURL(tracks) ==
    LET english == {i \in 1..Len(tracks) : IsEnglish(tracks[i])}
    IN  IF english = {} THEN tracks[1].BaseURL
        ELSE tracks[CHOOSE i \in english : \A j \in english : i <= j].BaseURL

\* C7: for every non-empty list of caption tracks the URL downloaded is the
\* delivery URL of the first English track, or of the first track when no
\* track is English.
C7_FirstEnglishTrackElseFirst ==
    \A c \in Callers :
        (gt[c].metaOK /\ Len(gt[c].tracks) > 0) =>
            gt[c].url = ttmlURL(PreferredURL(gt[c].tracks))

\* C8: one call issues at most one metadata request and at most one caption
\* request, the caption request only after the metadata request succeeded
\* with at least one caption track; a call that ended in an error made no
\* further request and carries no transcript.
C8_SingleAttemptPerStage ==
    \A c \in Callers :
        /\ gt[c].metaCalls <= 1
        /\ gt[c].capCalls <= 1
        /\ (gt[c].capCalls = 1 =>
                gt[c].metaCalls = 1 /\ gt[c].metaOK /\ Len(gt[c].tracks) >= 1)
        /\ (gt[c].pc = "done" =>
                /\ gt[c].result.ok = (gt[c].result.err = <<>>)
                /\ (gt[c].result.err # <<>> =>
                        gt[c].result.Segments = <<>> /\ gt[c].result.Title = "")
                /\ (gt[c].kind \in {"network@1", "status@1", "decode@1", "notracks"}
                        => gt[c].capCalls = 0 /\ gt[c].result.err # <<>>)
                /\ (gt[c].kind \in {"network@2", "status@2", "read@2", "decode@2"}
                        => gt[c].result.err # <<>>))

C8_Witness ==
    /\ gt["c1"].pc = "done" /\ gt["c1"].result.ok
    /\ gt["c1"].metaCalls = 1 /\ gt["c1"].capCalls = 1
    /\ Len(gt["c1"].result.Segments) = 3
    /\ gt["c2"].pc = "done" /\ gt["c2"].kind = "notracks"
    /\ gt["c2"].metaCalls = 1 /\ gt["c2"].capCalls = 0

FailureKinds ==
    {"network@1", "status@1", "decode@1", "notracks",
     "network@2", "status@2", "read@2", "decode@2"}

\* C9: the failures of GetTranscript are told apart by the error returned:
\* two calls that end with the same error failed in the same way at the same
\* stage, so a non-200 status at stage 1 is not reported as one at stage 2
\* is; and every failure ends in an error.
C9_FailuresAreDistinct ==
    \A c, d \in Callers :
        (gt[c].pc = "done" /\ gt[c].kind \in FailureKinds) =>
            /\ gt[c].result.err # <<>>
            /\ (gt[d].pc = "done" /\ gt[d].result.err = gt[c].result.err
                    => gt[d].kind = gt[c].kind)

C9_Witness ==
    /\ gt["c1"].pc = "done" /\ gt["c1"].kind = "status@1"
    /\ gt["c2"].pc = "done" /\ gt["c2"].kind = "status@2"
    /\ gt["c1"].result.err[Len(gt["c1"].result.err)] = "404"
    /\ gt["c2"].result.err[Len(gt["c2"].result.err)] = "404"

-----------------------------------------------------------------------------
(* Properties of MemoryRepository (SpecRepo) *)

\* Everything a caller can read through a response.
Deep(resp) ==
    [nil |-> resp.nil, Title |-> resp.Title,
     rawNil |-> resp.Raw = 0,
     Segments |-> IF resp.Raw = 0 THEN <<>> ELSE heapT[resp.Raw],
     Formatted |-> IF resp.Formatted = 0 THEN <<>> ELSE heapF[resp.Formatted]]

DeepNext(resp) ==
    [nil |-> resp.nil, Title |-> resp.Title,
     rawNil |-> resp.Raw = 0,
     Segments |-> IF resp.Raw = 0 THEN <<>> ELSE heapT'[resp.Raw],
     Formatted |-> IF resp.Formatted = 0 THEN <<>> ELSE heapF'[resp.Formatted]]

\* What Get(id) would return, for every id, now and after the step.
CacheView == [id \in DOMAIN cache |-> Deep(cache[id])]

CacheViewNext ==
    [id \in DOMAIN cache' |-> DeepNext(cache'[id])]

\* C1: after Save(id, t) no write the caller makes through its own t (its
\* title, the segments reached through its raw transcript, its formatted
\* list) changes what a later Get returns.
C1_SaveStoresIndependentCopy ==
    [][Mutate("t") => CacheViewNext = CacheView]_vars

\* C2: a value returned by Get is an independent copy: with no Save or Clear
\* in between, a write through the value one Get returned changes neither
\* what the cache holds nor the value another Get of that id returned.
C2_GetReturnsIndependentCopy ==
    [][(Mutate("g1") /\ got["g1"].fresh) =>
            /\ CacheViewNext = CacheView
            /\ (got["g2"].fresh /\ got["g2"].id = got["g1"].id
                    => DeepNext(loc'["g2"]) = Deep(loc["g2"]))]_vars

-----------------------------------------------------------------------------
(* Properties of the transcript endpoint (SpecSvc) *)

\* C4: a GET request is answered 400 when the video URL is missing,
\* unparsable or not on an allowed domain, 404 when the fetch succeeded but
\* gave no usable segment, 200 when a transcript was produced, and 500 on
\* every other failure.
C4_StatusByOutcome ==
    \A h \in Clients :
        (svc[h].pc = "done" /\ svc[h].method = "GET") =>
            svc[h].status = CASE svc[h].class = "badurl" -> 400
                              [] svc[h].class = "empty"  -> 404
                              [] svc[h].class = "ok"     -> 200
                              [] OTHER                   -> 500

\* The interval a request asks for: the number its interval parameter
\* spells when that is a number above 0, and 10 in every other case.
AskedInterval(intervalStr) ==
    LET r == ParseFloat(intervalStr)
    IN  IF r.ok /\ ~IsNaN(r.val) /\ r.val > 0 THEN r.val ELSE 10

\* C11: the interval that reaches FormatTranscript is always above 0: an
\* interval parameter that is absent, unparsable, zero or negative has been
\* replaced by 10 before the call, and FormatTranscript groups by exactly
\* the interval it is given.
C11_IntervalReachingGrouperIsPositive ==
    \A h \in Clients :
        (svc[h].pc = "done" /\ svc[h].class = "ok") =>
            /\ ~IsNaN(svc[h].interval)
            /\ svc[h].interval > 0
            /\ svc[h].interval = AskedInterval(svc[h].intervalStr)
            /\ svc[h].body.formatted = GroupsByRule(svc[h].body.segments, svc[h].interval)

-----------------------------------------------------------------------------
(* Properties of the repository's locking (SpecLock) *)

\* The goroutine is inside the critical section of its method.
InCS(t) == th[t].pc \in {"cs", "deferred"}

Writing(t) == InCS(t) /\ th[t].op \in {"Save", "Clear"}

Reading(t) == InCS(t) /\ th[t].op \in {"Get", "Size"}

\* The goroutine's next step does not wait for another goroutine.
CanStep(t) ==
    CASE th[t].pc = "Lock"  -> wFree
      [] th[t].pc = "drain" -> Drained
      [] th[t].pc = "rwait" -> FALSE
      [] OTHER              -> TRUE

\* C12: a Save or Clear is never inside its critical section together with
\* any other call, readers or writers; and the calls never deadlock:
\* whenever calls are in progress, one of them can take its next step.
C12_WritersExcludeAll ==
    /\ \A t, u \in Threads : (t # u /\ Writing(t)) => ~InCS(u)
    /\ (\E t \in Threads : th[t].pc # "idle")
            => \E t \in Threads : th[t].pc # "idle" /\ CanStep(t)

\* Two readers inside together while a writer waits for them.
C12_Witness ==
    \E t, u, v \in Threads :
        /\ t # u
        /\ Reading(t) /\ th[t].op = "Get"
        /\ Reading(u) /\ th[u].op = "Size"
        /\ th[v].pc = "drain" /\ th[v].op = "Save"

-----------------------------------------------------------------------------
(* Properties of the repository as a map (SpecRepo) *)

-----------------------------------------------------------------------------
(* Properties of ExtractVideoId (SpecExtract) *)

\* The characters a token is made of.
TokenChars ==
    { UpperChars[k] : k \in DOMAIN UpperChars } \cup { LowerChars[k] : k \in DOMAIN LowerChars }
    \cup { DigitChars[k] : k \in DOMAIN DigitChars } \cup {"-", "_"}

\* The places of str where a token starts: 11 characters of letters, digits,
\* "-" or "_", right after "/", "%3D", "v=" or "vi=", and right before "%",
\* "#", "?", "&", "/" or the end of str.
TokenStarts(str) ==
    { p \in 2..(Len(str) - 10) :
        /\ \/ str[p - 1] = "/"
           \/ p > 3 /\ SubSeq(str, p - 3, p - 1) = <<"%", "3", "D">>
           \/ p > 2 /\ SubSeq(str, p - 2, p - 1) = <<"v", "=">>
           \/ p > 3 /\ SubSeq(str, p - 3, p - 1) = <<"v", "i", "=">>
        /\ \A k \in p..(p + 10) : str[k] \in TokenChars
        /\ (p + 10 = Len(str) \/ str[p + 11] \in {"%", "#", "?", "&", "/"}) }

\* C14: ExtractVideoId returns its input unchanged when the input is exactly
\* 11 characters long, whatever the characters; for any other input it
\* returns the first token, and the empty string when there is none.
C14_ElevenCharsOrFirstToken ==
    urlFn = "ExtractVideoId" =>
        idOut = IF Len(urlIn) = 11 THEN urlIn
                ELSE IF TokenStarts(urlIn) = {} THEN <<>>
                ELSE LET p == CHOOSE p \in TokenStarts(urlIn) :
                                    \A q \in TokenStarts(urlIn) : p <= q
                     IN  SubSeq(urlIn, p, p + 10)

-----------------------------------------------------------------------------
(* Properties of IsValidUrl (SpecValid) *)

\* The host of the URL the pieces spell: the second piece without its user
\* part when the first piece ends in "//", and none otherwise.
HostOfParts ==
    IF Len(urlParts) >= 2 /\ HasSuffix(urlParts[1], <<"/", "/">>)
    THEN SubSeq(urlParts[2], LastIndexOf(urlParts[2], "@") + 1, Len(urlParts[2]))
    ELSE <<>>

\* A host with its letters lower-cased and one leading "www." removed.
Normalized(host) ==
    LET lower == [k \in 1..Len(host) |->
                    IF \E j \in 1..26 : UpperChars[j] = host[k]
                    THEN LowerChars[CHOOSE j \in 1..26 : UpperChars[j] = host[k]]
                    ELSE host[k]]
    IN  IF Len(lower) >= 4 /\ SubSeq(lower, 1, 4) = <<"w", "w", "w", ".">>
        THEN SubSeq(lower, 5, Len(lower))
        ELSE lower

AllowedHosts ==
    { <<"y", "o", "u", "t", "u", "b", "e", ".", "c", "o", "m">>,
      <<"y", "o", "u", "t", "u", ".", "b", "e">>,
      <<"m", ".", "y", "o", "u", "t", "u", "b", "e", ".", "c", "o", "m">> }

-----------------------------------------------------------------------------
(* Properties of formatTimeText (SpecLabel) *)

\* The fields of a label "(f1:f2) " or "(f1:f2:f3) " at the head of a line
\* that ends in the text "a".
LabelFields(line) == Split(SubSeq(line, 2, Len(line) - 3), ":")

\* The number a field of digits spells.
FieldValue(field) == DecimalValue(field, 0)

\* C16: for a whole number of seconds s >= 0 the label is "(MM:SS) " without
\* an hour field when s < 3600 and "(HH:MM:SS) " when s >= 3600, with
\* HH = s div 3600, MM = (s mod 3600) div 60 and SS = s mod 60, each of at
\* least two digits, padded with a zero; so MM and SS are in 0..59 and the
\* fields add up to s. 45 gives "(00:45) " and 3725 gives "(01:02:05) ".
C16_LabelFields ==
    lblCalled =>
        LET fields == LabelFields(lblOut)
            n      == Len(fields)
            HH     == IF n = 3 THEN FieldValue(fields[1]) ELSE 0
            MM     == FieldValue(fields[n - 1])
            SS     == FieldValue(fields[n])
        IN  /\ Head(lblOut) = "("
            /\ SubSeq(lblOut, Len(lblOut) - 2, Len(lblOut)) = <<")", " ", "a">>
            /\ n = IF lblIn < 3600 THEN 2 ELSE 3
            /\ \A k \in 1..n :
                    /\ Len(fields[k]) >= 2
                    /\ \A j \in 1..Len(fields[k]) : IsDigit(fields[k][j])
                    /\ Len(fields[k]) > 2 => fields[k][1] # "0"
            /\ Len(fields[n - 1]) = 2 /\ Len(fields[n]) = 2
            /\ HH = lblIn \div 3600
            /\ MM = (lblIn % 3600) \div 60
            /\ SS = lblIn % 60
            /\ MM \in 0..59 /\ SS \in 0..59
            /\ HH * 3600 + MM * 60 + SS = lblIn
            /\ lblIn = 45 => lblOut = <<"(", "0", "0", ":", "4", "5", ")", " ", "a">>
            /\ lblIn = 3725 =>
                    lblOut = <<"(", "0", "1", ":", "0", "2", ":", "0", "5", ")", " ", "a">>

\* The label of 3725 seconds has been written.
C16_Witness ==
    /\ lblCalled
    /\ lblIn = 3725
    /\ lblOut = <<"(", "0", "1", ":", "0", "2", ":", "0", "5", ")", " ", "a">>

-----------------------------------------------------------------------------
(* Properties of Transcript.GetTranscripts (SpecSvc) *)

\* GetTranscripts has been called for the request of h.
ServiceCalled(h) ==
    \/ svc[h].method = "CALL"
    \/ svc[h].method = "GET" /\ svc[h].url # <<>>

\* C17: in a call of GetTranscripts the cache is asked before the provider:
\* when repo.Get succeeded the call makes no provider request, a fetch is
\* made only after repo.Get returned an error, and repo.Save is called only
\* after the fetch of the same call returned successfully.
C17_CacheBeforeProvider ==
    \A h \in Clients :
        /\ svc[h].fetches <= 1 /\ svc[h].saves <= 1
        /\ svc[h].fetches > 0 => svc[h].getErr \notin {"none", "nil"}
        /\ svc[h].getErr = "nil" => svc[h].fetches = 0 /\ svc[h].saves = 0
        /\ svc[h].saves > 0 => svc[h].fetches = 1 /\ svc[h].fetched = "ok"
        /\ svc[h].pc = "fetching" => svc[h].fetches = 1 /\ svc[h].saves = 0

\* One call fetched and saved after a miss, the other was served from the
\* cache for the same video without a fetch.
C17_Witness ==
    /\ svc["h1"].pc = "done" /\ svc["h1"].getErr = "transcript not found"
    /\ svc["h1"].fetches = 1 /\ svc["h1"].saves = 1
    /\ svc["h2"].pc = "done" /\ svc["h2"].getErr = "nil"
    /\ svc["h2"].fetches = 0 /\ svc["h2"].class = "ok"
    /\ svc["h2"].videoID = svc["h1"].videoID

\* The call of h came back with ErrInvalidURL and touched neither the cache
\* nor the provider.
RefusedUntouched(h) ==
    /\ svc[h].pc = "done"
    /\ svc[h].svcErr = "invalid YouTube video URL"
    /\ svc[h].getErr = "none" /\ svc[h].fetches = 0 /\ svc[h].saves = 0

\* C18, as stated: GetTranscripts returns ErrInvalidURL, without reading or
\* writing the cache and without a provider request, whenever the video URL
\* is empty, its host is not an allowed domain, or no video id can be
\* extracted from it; so also for a bare 11-character video id.
C18_InvalidURLWhenNoIdInURL ==
    \A h \in Clients :
        (/\ ServiceCalled(h)
         /\ \/ svc[h].url = <<>>
            \/ ~IsValidUrl(svc[h].url)
            \/ ExtractVideoId(svc[h].url) = <<>>)
            => RefusedUntouched(h)

\* C18, amended: GetTranscripts returns ErrInvalidURL, without reading or
\* writing the cache and without a provider request, whenever the video URL
\* is empty, its host is not an allowed domain, or the request carries no
\* video id and none can be extracted from the URL; so also for a URL that
\* is a bare 11-character video id.
C18_InvalidURLUnlessIdGiven ==
    \A h \in Clients :
        /\ (/\ ServiceCalled(h)
            /\ \/ svc[h].url = <<>>
               \/ ~IsValidUrl(svc[h].url)
               \/ svc[h].reqID = <<>> /\ ExtractVideoId(svc[h].url) = <<>>)
                => RefusedUntouched(h)
        /\ (ServiceCalled(h) /\ svc[h].url = Url_bare) => RefusedUntouched(h)

\* A call with a bare video id as its URL was refused, and a call with a
\* video id of its own and a URL without one went on to the cache.
C18_Witness ==
    /\ svc["h1"].method = "CALL" /\ svc["h1"].url = Url_bare /\ RefusedUntouched("h1")
    /\ svc["h2"].method = "CALL" /\ svc["h2"].url = Url_noid /\ svc["h2"].reqID = VidB
    /\ svc["h2"].pc = "done" /\ svc["h2"].getErr = "transcript not found"
    /\ svc["h2"].videoID = VidB

\* C19: every entry the service has put in the cache is a non-nil response
\* of a successful fetch with at least one segment; a fetch that failed or
\* gave no segment is followed by no Save; repo.Get never returns
\* ErrInvalidTranscript, and a cache hit never gives an empty transcript.
C19_CacheHoldsFetchedTranscripts ==
    /\ \A id \in DOMAIN cache :
        /\ ~cache[id].nil
        /\ cache[id].Raw # 0
        /\ Len(heapT[cache[id].Raw]) >= 1
        /\ \E h \in Clients :
            /\ svc[h].videoID = id /\ svc[h].saves = 1 /\ svc[h].fetched = "ok"
            /\ svc[h].body.title = cache[id].Title
            /\ svc[h].body.segments = heapT[cache[id].Raw]
    /\ \A h \in Clients :
        /\ svc[h].getErr # "invalid transcript"
        /\ svc[h].class \in {"fail", "empty"} => svc[h].saves = 0
        /\ (svc[h].pc = "done" /\ svc[h].getErr = "nil")
                => svc[h].svcErr = "nil" /\ Len(svc[h].body.segments) >= 1

\* A fetch with segments was saved, and a fetch for another video gave none
\* and left no entry.
C19_Witness ==
    /\ svc["h1"].class = "ok" /\ svc["h1"].saves = 1 /\ svc["h1"].videoID = VidA
    /\ svc["h2"].class = "empty" /\ svc["h2"].fetched = "ok" /\ svc["h2"].videoID = VidB
    /\ DOMAIN cache = {VidA}

\* C20: the response of GetTranscripts is a function of the provider's answer
\* (title and raw segments) and of the interval of the request, the same for
\* a cache hit and for a fresh fetch, whatever intervals earlier requests
\* used: no cached entry carries formatted groups, the groups of every
\* response are those of its own segments and interval, and a hit gives the
\* title and segments of the fetch that was saved.
C20_ResponseIndependentOfPath ==
    /\ \A id \in DOMAIN cache : cache[id].Formatted = 0
    /\ \A h \in Clients :
        (svc[h].pc = "done" /\ svc[h].class = "ok") =>
            /\ svc[h].body.formatted
                    = FormatTranscript(svc[h].body.segments, svc[h].interval)
            /\ svc[h].getErr = "nil" =>
                \E f \in Clients :
                    /\ svc[f].saves = 1 /\ svc[f].videoID = svc[h].videoID
                    /\ svc[f].body.title = svc[h].body.title
                    /\ svc[f].body.segments = svc[h].body.segments
                    /\ svc[f].interval = svc[h].interval
                            => svc[f].body = svc[h].body

\* A fetch answered with interval 2 in three groups, then a hit for the
\* same video answered with interval 10 in two.
C20_Witness ==
    /\ svc["h1"].class = "ok" /\ svc["h1"].saves = 1 /\ svc["h1"].interval = 2
    /\ Len(svc["h1"].body.formatted) = 3
    /\ svc["h2"].class = "ok" /\ svc["h2"].getErr = "nil" /\ svc["h2"].interval = 10
    /\ svc["h2"].videoID = svc["h1"].videoID
    /\ svc["h2"].body.segments = svc["h1"].body.segments
    /\ Len(svc["h2"].body.formatted) = 2

\* The call of h put its fetched response in the cache: repo.Save was called
\* under a context that was still live.
SaveSucceeded(h) ==
    svc[h].pc = "done" /\ svc[h].saves = 1 /\ ~svc[h].cancelled

\* The call of h missed the cache and its own fetch gave a transcript.
FetchedAfterMiss(h) ==
    /\ svc[h].pc = "done" /\ svc[h].getErr = "transcript not found"
    /\ svc[h].fetches = 1 /\ svc[h].fetched = "ok" /\ svc[h].class = "ok"

\* The cache entry of id is the response the call of h fetched.
EntryIsResultOf(id, h) ==
    /\ cache[id].Raw # 0
    /\ cache[id].Title = svc[h].body.title
    /\ heapT[cache[id].Raw] = svc[h].body.segments

\* C21, as stated: when two calls of GetTranscripts for the same uncached
\* video id overlap and each makes its own fetch, each returns a complete
\* response and afterwards the cache holds the entry of that id, equal to
\* one of the two fetched results.
C21_OverlappingMissesLeaveAnEntry ==
    \A h1, h2 \in Clients :
        (/\ h1 # h2
         /\ svc[h1].videoID = svc[h2].videoID
         /\ FetchedAfterMiss(h1) /\ FetchedAfterMiss(h2))
            => /\ Len(svc[h1].body.segments) >= 1 /\ Len(svc[h2].body.segments) >= 1
               /\ svc[h1].videoID \in DOMAIN cache
               /\ \/ EntryIsResultOf(svc[h1].videoID, h1)
                  \/ EntryIsResultOf(svc[h1].videoID, h2)

\* C21, amended: calls of GetTranscripts for the same video id may each
\* make their own fetch; every call that returns without error returns a
\* complete response, built from its own completed fetch or from a cache
\* entry some call saved; and the cache holds an entry for an id exactly
\* when some call saved one under a context that was not cancelled, that
\* entry being the fetched result of one of those calls.
C21_EntryIsOneSavedFetch ==
    /\ \A h \in Clients :
        (svc[h].pc = "done" /\ svc[h].class = "ok") =>
            /\ svc[h].svcErr = "nil" /\ svc[h].body.message = ""
            /\ Len(svc[h].body.segments) >= 1
            /\ svc[h].body.formatted
                    = FormatTranscript(svc[h].body.segments, svc[h].interval)
            /\ \/ svc[h].fetches = 1 /\ svc[h].fetched = "ok"
               \/ /\ svc[h].getErr = "nil" /\ svc[h].fetches = 0
                  /\ \E f \in Clients :
                        /\ SaveSucceeded(f) /\ svc[f].videoID = svc[h].videoID
                        /\ svc[f].body.title = svc[h].body.title
                        /\ svc[f].body.segments = svc[h].body.segments
    /\ \A id \in IDs :
        LET savers == { h \in Clients : SaveSucceeded(h) /\ svc[h].videoID = id }
        IN  IF savers = {} THEN id \notin DOMAIN cache
            ELSE /\ id \in DOMAIN cache
                 /\ \E f \in savers : EntryIsResultOf(id, f)

\* Two calls for one video both missed, both fetched and both saved; the
\* fetches gave different titles and the entry is that of one of them.
C21_Witness ==
    /\ FetchedAfterMiss("h1") /\ FetchedAfterMiss("h2")
    /\ SaveSucceeded("h1") /\ SaveSucceeded("h2")
    /\ svc["h1"].videoID = VidA /\ svc["h2"].videoID = VidA
    /\ svc["h1"].body.title # svc["h2"].body.title
    /\ EntryIsResultOf(VidA, "h2") /\ ~EntryIsResultOf(VidA, "h1")

====
